---- MODULE Spec2Model ----
(***************************************************************************)
(* The crates-index build pipeline of rust-search-extension                *)
(* (src/rust/src/bin/crates-index.rs): load crates.csv, rank and truncate, *)
(* load versions.csv, sort and de-duplicate, resolve versions and collect  *)
(* the word corpus, build the Minifier, generate the JavaScript index and  *)
(* write it.                                                               *)
(*                                                                         *)
(* Strings are sequences of characters; a character is a short name and    *)
(* carries its UTF-8 width, since String::len, is_char_boundary and        *)
(* truncate all count bytes.                                               *)
(***************************************************************************)
EXTENDS Integers, Sequences, FiniteSets, TLC

VARIABLES
    crates_csv,        \* the file <csv_path>crates.csv
    versions_csv,      \* the file <csv_path>versions.csv
    pc,                \* position of main
    crates,            \* main's `crates: Vec<Crate>`
    versions,          \* main's `versions: Vec<CrateVersion>`
    unique_crate_ids,  \* main's `unique_crate_ids: HashSet<u64>`
    words,             \* `collector.words` (and the WordCollector under unit calls)
    minifier,          \* the Minifier built from the corpus, <<>> before
    contents,          \* main's `contents: String`, as a sequence of text tokens
    file,              \* the output file: <<>> when absent, <<text>> when written
    failure,           \* the error that ended the run and the stage it struck, if any
    prev_file,         \* the output file as the previous run left it
    sort_memo,         \* the crates sort_unstable_by put first for this input, if it ran
    arg                \* the argument of a single WordCollector call

vars == <<crates_csv, versions_csv, pc, crates, versions, unique_crate_ids, words,
          minifier, contents, file, failure, prev_file, sort_memo, arg>>

\* ---------------------------------------------------------------- bounds

MaxCrates == 3
MaxVersions == 3
MaxIdLen == 4
MaxTail == 3
PadSlack == 3

\* ------------------------------------------------------------ characters

\* U+00E9, U+0130 and U+0307 take two bytes in UTF-8, U+4E2D three.
Utf8Len(c) ==
    CASE c \in {"e_acute", "I_dot", "dot_above"} -> 2
      [] c = "han" -> 3
      [] OTHER -> 1

\* char::is_whitespace, on the characters of the model
IsWhitespace(c) == c = " "

\* char::to_lowercase: U+0130 lowers to "i" followed by U+0307
LowerChar(c) ==
    CASE c = "A" -> <<"a">>
      [] c = "B" -> <<"b">>
      [] c = "I_dot" -> <<"i", "dot_above">>
      [] OTHER -> <<c>>

RECURSIVE PrefixBytes(_, _)
\* the bytes the first k characters of s take
PrefixBytes(s, k) == IF k = 0 THEN 0 ELSE PrefixBytes(s, k - 1) + Utf8Len(s[k])

\* String::len: the length in bytes
byte_len(s) == PrefixBytes(s, Len(s))

RECURSIVE to_lowercase(_)
to_lowercase(s) == IF s = <<>> THEN <<>> ELSE LowerChar(Head(s)) \o to_lowercase(Tail(s))

\* str::replace(from, to) for one-character patterns
replace(s, from, to) == [i \in 1..Len(s) |-> IF s[i] = from THEN to ELSE s[i]]

RECURSIVE SplitFrom(_, _, _)
SplitFrom(s, sep, piece) ==
    IF s = <<>> THEN <<piece>>
    ELSE IF Head(s) = sep THEN <<piece>> \o SplitFrom(Tail(s), sep, <<>>)
    ELSE SplitFrom(Tail(s), sep, Append(piece, Head(s)))

\* str::split(char): every piece between separators, the empty ones included
split(s, sep) == SplitFrom(s, sep, <<>>)

RECURSIVE TrimStart(_)
TrimStart(s) == IF s # <<>> /\ IsWhitespace(Head(s)) THEN TrimStart(Tail(s)) ELSE s

RECURSIVE TrimEnd(_)
TrimEnd(s) ==
    IF s # <<>> /\ IsWhitespace(s[Len(s)]) THEN TrimEnd(SubSeq(s, 1, Len(s) - 1)) ELSE s

\* str::trim
trim(s) == TrimEnd(TrimStart(s))

RECURSIVE Walk(_, _, _, _)
\* walk s from character k at byte offset acc up to the first character start
\* (or the end) at or after byte offset index
Walk(s, index, k, acc) ==
    IF acc >= index \/ k > Len(s) THEN [chars |-> k - 1, offset |-> acc]
    ELSE Walk(s, index, k + 1, acc + Utf8Len(s[k]))

\* str::is_char_boundary: true at 0, at the end and at the start of a
\* character; false inside a character and past the end
is_char_boundary(s, index) == Walk(s, index, 1, 0).offset = index

\* String::truncate: no effect when new_len >= len; otherwise new_len must be
\* a character boundary (the call panics when it is not)
truncate(s, new_len) ==
    IF new_len >= byte_len(s) THEN s
    ELSE LET w == Walk(s, new_len, 1, 0)
         IN SubSeq(s, 1, CHOOSE k \in {w.chars} : w.offset = new_len)

\* --------------------------------------------------------- WordCollector

\* collect_crate_id with the length filter off by one (`> 3` for `>= 3`)
collect_crate_id_longer(ws, value) ==
    LET id == replace(value, "-", "_")
    IN ws \o SelectSeq(split(to_lowercase(id), "_"), LAMBDA c : byte_len(c) > 3)

\* WordCollector::collect_crate_id, on the collector's words
collect_crate_id(ws, value) ==
    LET id == replace(value, "-", "_")
    IN ws \o SelectSeq(split(to_lowercase(id), "_"), LAMBDA c : byte_len(c) >= 3)

\* WordCollector::collect_crate_description, on the collector's words
collect_crate_description(ws, value) ==
    LET description == trim(value)
    IN Append(ws, IF is_char_boundary(description, 100)
                  THEN truncate(description, 100)
                  ELSE description)

\* -------------------------------------------------------------- records

\* default_version parsing another literal
default_version_other == <<0, 0, 1>>

\* fn default_version: Version::parse("0.0.0"), as <<major, minor, patch>>
default_version == <<0, 0, 0>>

\* Version's Ord on <<major, minor, patch>> (the model has no pre-release tags)
VersionLess(a, b) ==
    \/ a[1] < b[1]
    \/ a[1] = b[1] /\ a[2] < b[2]
    \/ a[1] = b[1] /\ a[2] = b[2] /\ a[3] < b[3]

\* struct Crate, deserialized from a row: `version` is skip_deserializing and
\* takes default_version(). An Option is a sequence of length at most one.
Crate(row) ==
    [id |-> row.id, name |-> row.name, downloads |-> row.downloads,
     description |-> row.description, version |-> default_version]

\* struct CrateVersion, deserialized from a row
CrateVersion(row) == [crate_id |-> row.crate_id, num |-> row.num]

\* read_csv dropping the rows that do not deserialize instead of failing
read_csv_skipping(f) == [ok |-> TRUE, records |-> f.rows, err |-> "none"]

\* fn read_csv: every record in file order, or the first error and no records
read_csv(f) ==
    IF f.status = "ok"
    THEN [ok |-> TRUE, records |-> f.rows, err |-> "none"]
    ELSE [ok |-> FALSE, records |-> <<>>, err |-> f.status]

\* ------------------------------------------------------------------ sort

Arrangements(s) == {[i \in 1..Len(s) |-> s[p[i]]] : p \in Permutations(1..Len(s))}

\* the comparator with its operands swapped: ascending downloads
CratesInOrder_ascending(a, b) == a.downloads <= b.downloads

\* |a, b| b.downloads.cmp(&a.downloads) puts a before b
CratesInOrder(a, b) == a.downloads >= b.downloads

\* |a, b| b.num.cmp(&a.num) puts a before b
VersionsInOrder(a, b) == ~VersionLess(a.num, b.num)

\* slice::sort_unstable_by: some arrangement in the comparator's order; which
\* one among equal keys is unspecified, but a function of the input.
SortedCrates(s) ==
    {t \in Arrangements(s) : \A i \in 1..(Len(t) - 1) : CratesInOrder(t[i], t[i + 1])}

SortedVersions(s) ==
    {t \in Arrangements(s) : \A i \in 1..(Len(t) - 1) : VersionsInOrder(t[i], t[i + 1])}

\* const MAX_CRATE_SIZE: usize = 20 * 1000, scaled to a population TLC enumerates
MAX_CRATE_SIZE == 1

\* Vec::drain(0..=MAX_CRATE_SIZE) panics when the range ends past the vector
DrainPanics(v) == MAX_CRATE_SIZE + 1 > Len(v)

\* the drain with an exclusive range, 0..MAX_CRATE_SIZE
Drained_exclusive(v) == SubSeq(v, 1, MAX_CRATE_SIZE)

\* crates.drain(0..=MAX_CRATE_SIZE).collect()
Drained(v) == SubSeq(v, 1, MAX_CRATE_SIZE + 1)

\* ---------------------------------------------------------------- filter

\* what the filter closure returns for a crate_id that is not yet in the set
FirstSeenKept == FALSE

RECURSIVE FilterVersions(_, _, _)
\* versions.into_iter().filter(|v| ...).collect(), with the HashSet it fills
FilterVersions(vs, seen, kept) ==
    IF vs = <<>> THEN [versions |-> kept, unique_crate_ids |-> seen]
    ELSE LET v == Head(vs)
         IN IF v.crate_id \in seen
            THEN FilterVersions(Tail(vs), seen, kept)
            ELSE FilterVersions(Tail(vs), seen \cup {v.crate_id},
                                IF FirstSeenKept THEN Append(kept, v) ELSE kept)

\* --------------------------------------------------------------- collect

\* versions.iter().find(|&v| v.crate_id == item.id), then item.version = num
ResolveVersion(item, vs) ==
    LET hits == {i \in 1..Len(vs) : vs[i].crate_id = item.id}
    IN IF hits = {} THEN item
       ELSE [item EXCEPT !.version = vs[CHOOSE i \in hits : \A j \in hits : i <= j].num]

\* the closure with its two collector calls in the other order
CollectItem_id_first(ws, item) ==
    LET named == collect_crate_id(ws, item.name)
    IN IF item.description # <<>>
       THEN collect_crate_description(named, item.description[1])
       ELSE named

\* the for_each closure's calls on the collector for one item
CollectItem(ws, item) ==
    LET described == IF item.description # <<>>
                     THEN collect_crate_description(ws, item.description[1])
                     ELSE ws
    IN collect_crate_id(described, item.name)

RECURSIVE CollectAll(_, _)
\* the collector's words after crates.iter_mut().for_each(...)
CollectAll(ws, cs) == IF cs = <<>> THEN ws ELSE CollectAll(CollectItem(ws, Head(cs)), Tail(cs))

\* -------------------------------------------------------------- Minifier
\* rust_search_extension::minify::Minifier is outside this file; it is
\* modelled from its consumed interface: a dictionary from corpus entries to
\* short substitutes, and substitution of the pieces of a text found in it.

FirstIndex(ws, w) == CHOOSE i \in 1..Len(ws) : ws[i] = w /\ \A j \in 1..(i - 1) : ws[j] # w

\* Minifier::new(&collector.words)
Minifier_new(ws) ==
    [mapping |-> [w \in {ws[i] : i \in 1..Len(ws)} |-> "@" \o ToString(FirstIndex(ws, w))]]

\* Minifier::get_mapping
get_mapping(m) == m.mapping

Substituted(m, piece) == IF piece \in DOMAIN m.mapping THEN <<m.mapping[piece]>> ELSE piece

RECURSIVE MinifyPieces(_, _, _, _)
MinifyPieces(m, s, seps, piece) ==
    IF s = <<>> THEN Substituted(m, piece)
    ELSE IF Head(s) \in seps
         THEN Substituted(m, piece) \o <<Head(s)>> \o MinifyPieces(m, Tail(s), seps, <<>>)
         ELSE MinifyPieces(m, Tail(s), seps, Append(piece, Head(s)))

\* Minifier::mapping_minify_crate_id: substitution on the name's sub-tokens
mapping_minify_crate_id(m, name) == MinifyPieces(m, name, {"-", "_"}, <<>>)

\* Minifier::mapping_minify: substitution on the words of a text
mapping_minify(m, text) == MinifyPieces(m, text, {" "}, <<>>)

\* Minifier::minify_json: a text is a sequence of tokens, <<" ">> the
\* whitespace between structural tokens
minify_json(text) == SelectSeq(text, LAMBDA t : t # <<" ">>)

\* ------------------------------------------------------------- serialize

\* the key and the value of one item in `crates_map`
EntryKey(m, item) == mapping_minify_crate_id(m, item.name)

EntryValue(m, item) ==
    <<IF item.description = <<>> THEN <<>> ELSE <<mapping_minify(m, item.description[1])>>,
      item.version>>

\* crates.into_iter().map(...).collect::<HashMap<_, _>>(): a later item with
\* the key of an earlier one replaces its value
crates_map(cs, m) ==
    [k \in {EntryKey(m, cs[i]) : i \in 1..Len(cs)} |->
        LET hits == {i \in 1..Len(cs) : EntryKey(m, cs[i]) = k}
        IN EntryValue(m, cs[CHOOSE i \in hits : \A j \in hits : j <= i])]

\* the orders in which a HashMap with RandomState may iterate its keys
IterationOrders(map) ==
    {o \in [1..Cardinality(DOMAIN map) -> DOMAIN map] :
        \A i, j \in DOMAIN o : i # j => o[i] # o[j]}

\* serde_json::to_string(&crates_map): one token <<key, description, version>>
\* per entry, in iteration order, with no whitespace
to_string(map, order) == [i \in DOMAIN order |-> <<order[i], map[order[i]][1], map[order[i]][2]>>]

\* generate_javascript_crates_index with the null alias pushed after the index
generate_javascript_crates_index_alias_last(cs, m, order) ==
    LET crate_index == <<<<"var crateIndex={">>>> \o to_string(crates_map(cs, m), order)
                       \o <<<<"};">>>>
    IN minify_json(crate_index) \o <<<<"var N=null;">>>>

\* fn generate_javascript_crates_index, for one iteration order of the map
generate_javascript_crates_index(cs, m, order) ==
    LET crate_index == <<<<"var crateIndex={">>>> \o to_string(crates_map(cs, m), order)
                       \o <<<<"};">>>>
    IN <<<<"var N=null;">>>> \o minify_json(crate_index)

\* format!("var mapping={};", serde_json::to_string(&mapping)?)
MappingDeclaration(m) == <<<<"var mapping=">>, <<"dict", get_mapping(m)>>, <<";">>>>

\* ---------------------------------------------------------------- inputs

NamePool == {<<"a", "b", "c", "-", "d">>, <<"A", "_", "b">>}
DescriptionPool == {<<>>, <<<<" ", "a", "b", " ">>>>}
DownloadPool == {10, 500, 9999}
VersionPool == {<<1, 0, 0>>, <<1, 5, 0>>, <<2, 0, 0>>}

CrateFields == [name : NamePool, downloads : DownloadPool, description : DescriptionPool]

\* the rows of a crates.csv: `id` is unique, here the row number
CrateRows(n, f) ==
    [i \in 1..n |-> [id |-> i, name |-> f[i].name, downloads |-> f[i].downloads,
                     description |-> f[i].description]]

VersionFields == [crate_id : 1..(MAX_CRATE_SIZE + 1), num : VersionPool]

SampleCrateRows ==
    <<[id |-> 1, name |-> <<"a", "b", "c", "-", "d">>, downloads |-> 500,
       description |-> <<<<" ", "a", "b", " ">>>>],
      [id |-> 2, name |-> <<"A", "_", "b">>, downloads |-> 9999, description |-> <<>>],
      [id |-> 3, name |-> <<"a", "b", "c", "-", "d">>, downloads |-> 10,
       description |-> <<>>]>>

SampleVersionRows == <<[crate_id |-> 1, num |-> <<1, 0, 0>>]>>

\* a file that reads to the end, one that cannot be opened, and one with a
\* row that does not deserialize after the rows given
FileStatus(rows) ==
    {"ok"} \cup (IF rows = <<>> THEN {"IoFailure"} ELSE {})
           \cup (IF Len(rows) <= 1 THEN {"MalformedRecord"} ELSE {})

NoFailure == [kind |-> "none", stage |-> "none"]

Fresh ==
    /\ pc = "read_crates"
    /\ crates = <<>>
    /\ versions = <<>>
    /\ unique_crate_ids = {}
    /\ words = <<>>
    /\ minifier = <<>>
    /\ contents = <<>>
    /\ failure = NoFailure

\* the package table varies, the version table is a sample
InitPopulation ==
    /\ \E n \in 0..MaxCrates : \E f \in [1..n -> CrateFields] :
          \E status \in FileStatus(CrateRows(n, f)) :
              crates_csv = [status |-> status, rows |-> CrateRows(n, f)]
    /\ versions_csv = [status |-> "ok", rows |-> SampleVersionRows]

\* the version table varies, the package table is a sample
InitVersionTable ==
    /\ crates_csv = [status |-> "ok", rows |-> SampleCrateRows]
    /\ \E n \in 0..MaxVersions : \E rows \in [1..n -> VersionFields] :
          \E status \in FileStatus(rows) :
              versions_csv = [status |-> status, rows |-> rows]

Init ==
    /\ InitPopulation \/ InitVersionTable
    /\ Fresh
    /\ file = <<>>
    /\ prev_file = <<>>
    /\ sort_memo = <<>>
    /\ arg = <<>>

\* ------------------------------------------------------------------ main

\* let mut crates: Vec<Crate> = read_csv(...)?
ReadCrates ==
    /\ pc = "read_crates"
    /\ LET r == read_csv(crates_csv)
       IN IF r.ok
          THEN /\ crates' = [i \in DOMAIN r.records |-> Crate(r.records[i])]
               /\ pc' = "rank_crates"
               /\ UNCHANGED failure
          ELSE /\ failure' = [kind |-> r.err, stage |-> "read_crates"]
               /\ pc' = "failed"
               /\ UNCHANGED crates
    /\ UNCHANGED <<crates_csv, versions_csv, versions, unique_crate_ids, words, minifier,
                   contents, file, prev_file, sort_memo, arg>>

\* crates.sort_unstable_by(|a, b| b.downloads.cmp(&a.downloads));
\* crates = crates.drain(0..=MAX_CRATE_SIZE).collect()
\* A run on an input that was ranked before repeats what the sort put first.
RankCrates ==
    /\ pc = "rank_crates"
    /\ \E t \in SortedCrates(crates) :
          IF DrainPanics(t)
          THEN /\ failure' = [kind |-> "InsufficientPopulation", stage |-> "rank_crates"]
               /\ pc' = "failed"
               /\ crates' = t
               /\ UNCHANGED sort_memo
          ELSE /\ sort_memo \in {<<>>, <<Drained(t)>>}
               /\ crates' = Drained(t)
               /\ sort_memo' = <<Drained(t)>>
               /\ pc' = "read_versions"
               /\ UNCHANGED failure
    /\ UNCHANGED <<crates_csv, versions_csv, versions, unique_crate_ids, words, minifier,
                   contents, file, prev_file, arg>>

\* let mut versions: Vec<CrateVersion> = read_csv(...)?
ReadVersions ==
    /\ pc = "read_versions"
    /\ LET r == read_csv(versions_csv)
       IN IF r.ok
          THEN /\ versions' = [i \in DOMAIN r.records |-> CrateVersion(r.records[i])]
               /\ pc' = "dedup_versions"
               /\ UNCHANGED failure
          ELSE /\ failure' = [kind |-> r.err, stage |-> "read_versions"]
               /\ pc' = "failed"
               /\ UNCHANGED versions
    /\ UNCHANGED <<crates_csv, versions_csv, crates, unique_crate_ids, words, minifier,
                   contents, file, prev_file, sort_memo, arg>>

\* versions.sort_unstable_by(|a, b| b.num.cmp(&a.num)), then the
\* de-duplicating filter over the sorted versions
DedupVersions ==
    /\ pc = "dedup_versions"
    /\ \E t \in SortedVersions(versions) :
          LET r == FilterVersions(t, {}, <<>>)
          IN /\ versions' = r.versions
             /\ unique_crate_ids' = r.unique_crate_ids
    /\ pc' = "collect"
    /\ UNCHANGED <<crates_csv, versions_csv, crates, words, minifier, contents, file,
                   failure, prev_file, sort_memo, arg>>

\* let mut collector = WordCollector::new(); crates.iter_mut().for_each(...)
CollectWords ==
    /\ pc = "collect"
    /\ crates' = [i \in DOMAIN crates |-> ResolveVersion(crates[i], versions)]
    /\ words' = CollectAll(<<>>, crates)
    /\ pc' = "minifier"
    /\ UNCHANGED <<crates_csv, versions_csv, versions, unique_crate_ids, minifier,
                   contents, file, failure, prev_file, sort_memo, arg>>

\* let minifier = Minifier::new(&collector.words); let mut contents = format!(...)
BuildMinifier ==
    /\ pc = "minifier"
    /\ minifier' = Minifier_new(words)
    /\ contents' = MappingDeclaration(Minifier_new(words))
    /\ pc' = "generate"
    /\ UNCHANGED <<crates_csv, versions_csv, crates, versions, unique_crate_ids, words,
                   file, failure, prev_file, sort_memo, arg>>

\* contents.push_str(&generate_javascript_crates_index(crates, &minifier)?)
GenerateIndex ==
    /\ pc = "generate"
    /\ \E order \in IterationOrders(crates_map(crates, minifier)) :
          contents' = contents \o generate_javascript_crates_index(crates, minifier, order)
    /\ pc' = "write"
    /\ UNCHANGED <<crates_csv, versions_csv, crates, versions, unique_crate_ids, words,
                   minifier, file, failure, prev_file, sort_memo, arg>>

\* what a failing fs::write leaves on disk: the file as it was when it cannot
\* be created; once created, an empty file or one cut short before its end
FailedWrites(old, text) == {old, <<<<>>>>, <<SubSeq(text, 1, Len(text) - 1)>>}

\* fs::write(path, &contents)?; println!(...); Ok(())
WriteFile ==
    /\ pc = "write"
    /\ \/ /\ file' = <<contents>>
          /\ pc' = "done"
          /\ UNCHANGED failure
       \/ /\ file' \in FailedWrites(file, contents)
          /\ failure' = [kind |-> "IoFailure", stage |-> "write"]
          /\ pc' = "failed"
    /\ UNCHANGED <<crates_csv, versions_csv, crates, versions, unique_crate_ids, words,
                   minifier, contents, prev_file, sort_memo, arg>>

Next ==
    \/ ReadCrates
    \/ RankCrates
    \/ ReadVersions
    \/ DedupVersions
    \/ CollectWords
    \/ BuildMinifier
    \/ GenerateIndex
    \/ WriteFile

Spec == Init /\ [][Next]_vars

\* a second run of the program on the same two files
Rerun ==
    /\ pc = "done"
    /\ pc' = "read_crates"
    /\ crates' = <<>>
    /\ versions' = <<>>
    /\ unique_crate_ids' = {}
    /\ words' = <<>>
    /\ minifier' = <<>>
    /\ contents' = <<>>
    /\ prev_file' = file
    /\ UNCHANGED <<crates_csv, versions_csv, file, failure, sort_memo, arg>>

NextRerun == Next \/ Rerun

SpecRerun == Init /\ [][NextRerun]_vars

\* ------------------------------------------- single WordCollector calls

Seqs(S, n) == UNION {[1..k -> S] : k \in 0..n}

Idle ==
    /\ crates_csv = [status |-> "ok", rows |-> <<>>]
    /\ versions_csv = [status |-> "ok", rows |-> <<>>]
    /\ crates = <<>>
    /\ versions = <<>>
    /\ unique_crate_ids = {}
    /\ minifier = <<>>
    /\ contents = <<>>
    /\ file = <<>>
    /\ failure = NoFailure
    /\ prev_file = <<>>
    /\ sort_memo = <<>>

\* what the collector holds before the call
CollectedBefore == {<<>>, <<<<"p", "r", "e">>>>}

IdChars == {"a", "B", "-", "_", "e_acute", "I_dot"}

IdInputs ==
    Seqs(IdChars, MaxIdLen)
    \cup {<<"s", "e", "r", "d", "e", "_", "j", "s", "o", "n">>, <<"a", "-", "b">>}

InitCollectCrateId ==
    /\ Idle
    /\ pc = "call_collect_crate_id"
    /\ words \in CollectedBefore
    /\ \E v \in IdInputs : arg = [value |-> v, words |-> words]

CallCollectCrateId ==
    /\ pc = "call_collect_crate_id"
    /\ words' = collect_crate_id(words, arg.value)
    /\ pc' = "returned"
    /\ UNCHANGED <<crates_csv, versions_csv, crates, versions, unique_crate_ids, minifier,
                   contents, file, failure, prev_file, sort_memo, arg>>

SpecCollectCrateId == InitCollectCrateId /\ [][CallCollectCrateId]_vars

Pad(n) == [i \in 1..n |-> "a"]

TailChars == {"a", "e_acute", "han", " "}

\* descriptions around the 100-byte mark, and one of 150 ASCII characters
DescriptionInputs ==
    {lead \o Pad(n) \o tail :
        lead \in {<<>>, <<" ">>},
        n \in ((100 - PadSlack)..(100 + PadSlack)) \cup {150},
        tail \in Seqs(TailChars, MaxTail)}

InitCollectCrateDescription ==
    /\ Idle
    /\ pc = "call_collect_crate_description"
    /\ words \in CollectedBefore
    /\ \E v \in DescriptionInputs : arg = [value |-> v, words |-> words]

CallCollectCrateDescription ==
    /\ pc = "call_collect_crate_description"
    /\ words' = collect_crate_description(words, arg.value)
    /\ pc' = "returned"
    /\ UNCHANGED <<crates_csv, versions_csv, crates, versions, unique_crate_ids, minifier,
                   contents, file, failure, prev_file, sort_memo, arg>>

SpecCollectCrateDescription ==
    InitCollectCrateDescription /\ [][CallCollectCrateDescription]_vars

\* ---------------------------------------------------------------- claims

Retained == {"read_versions", "dedup_versions", "collect", "minifier", "generate",
             "write", "done"}
Resolved == {"minifier", "generate", "write", "done"}
Generated == {"write", "done"}

\* the version records of the version table that carry a package's id
RecordsOf(id) ==
    {versions_csv.rows[j].num :
        j \in {k \in DOMAIN versions_csv.rows : versions_csv.rows[k].crate_id = id}}

\* the entries of the crateIndex literal in a text
Entries(text) == SelectSeq(text, LAMBDA t : Len(t) = 3)

\* the rows of the package table that were not retained
Excluded ==
    {r \in {crates_csv.rows[j] : j \in DOMAIN crates_csv.rows} :
        \A i \in DOMAIN crates : crates[i].id # r.id}

\* C1: after the resolver step every retained package that has records in the
\* version table carries the highest of them.
VersionResolution ==
    pc \in Resolved =>
        \A i \in DOMAIN crates :
            RecordsOf(crates[i].id) # {} =>
                /\ crates[i].version \in RecordsOf(crates[i].id)
                /\ \A v \in RecordsOf(crates[i].id) : ~VersionLess(crates[i].version, v)

\* C2: with at least MAX_CRATE_SIZE + 1 packages loaded the truncation does not
\* fail, and the retained population has exactly MAX_CRATE_SIZE + 1 packages,
\* each a loaded row, in descending order of downloads, none with fewer
\* downloads than an excluded package.
RankingTruncation ==
    (crates_csv.status = "ok" /\ Len(crates_csv.rows) >= MAX_CRATE_SIZE + 1) =>
        /\ failure.kind # "InsufficientPopulation"
        /\ pc \in Retained =>
              /\ Len(crates) = MAX_CRATE_SIZE + 1
              /\ \A i \in DOMAIN crates :
                    /\ crates[i].id \in DOMAIN crates_csv.rows
                    /\ crates[i].name = crates_csv.rows[crates[i].id].name
                    /\ crates[i].downloads = crates_csv.rows[crates[i].id].downloads
                    /\ crates[i].description = crates_csv.rows[crates[i].id].description
              /\ \A i, j \in DOMAIN crates : i < j =>
                    /\ crates[i].id # crates[j].id
                    /\ crates[i].downloads >= crates[j].downloads
              /\ \A i \in DOMAIN crates : \A r \in Excluded : crates[i].downloads >= r.downloads

\* C2 witness: downloads [500, 10, 9999] ranked and truncated to two survivors
RankingTruncationWitness ==
    /\ pc = "read_versions"
    /\ Len(crates_csv.rows) = 3
    /\ crates_csv.rows[1].downloads = 500
    /\ crates_csv.rows[2].downloads = 10
    /\ crates_csv.rows[3].downloads = 9999
    /\ crates[1].id = 3
    /\ crates[2].id = 1

\* the index holds one entry per retained package, under pairwise distinct keys
OnePerPackage ==
    LET es == Entries(contents)
    IN /\ Len(es) = MAX_CRATE_SIZE + 1
       /\ \A i, j \in DOMAIN es : i # j => es[i][1] # es[j][1]
       /\ \A i \in DOMAIN crates :
             \E j \in DOMAIN es :
                 /\ es[j][1] = EntryKey(minifier, crates[i])
                 /\ es[j][2] = EntryValue(minifier, crates[i])[1]
                 /\ es[j][3] = crates[i].version

UniqueIds == \A i, j \in DOMAIN crates_csv.rows :
                 i # j => crates_csv.rows[i].id # crates_csv.rows[j].id

\* C3 as stated: unique ids are enough for one entry per retained package.
OnePerPackageGivenUniqueIds == (pc \in Generated /\ UniqueIds) => OnePerPackage

DistinctNames == \A i, j \in DOMAIN crates : i # j => crates[i].name # crates[j].name

DistinctKeys ==
    \A i, j \in DOMAIN crates :
        i # j => EntryKey(minifier, crates[i]) # EntryKey(minifier, crates[j])

\* C3, amended: when no two retained packages share a minified identifier (no
\* two share a name, under a one-to-one substitution), the index has exactly
\* MAX_CRATE_SIZE + 1 entries with pairwise distinct keys, one for each
\* retained package.
OnePerPackageGivenDistinctKeys == (pc \in Generated /\ DistinctKeys) => OnePerPackage

\* C3 witness: three packages loaded, two retained under different names, written
OnePerPackageWitness ==
    /\ pc = "done"
    /\ Len(crates_csv.rows) = MAX_CRATE_SIZE + 2
    /\ DistinctKeys
    /\ Len(Entries(file[1])) = MAX_CRATE_SIZE + 1

\* C4: a run that completes after an earlier run on the same files leaves the
\* same text in the output file.
Determinism == (pc = "done" /\ prev_file # <<>>) => file = prev_file

IsPrefix(p, t) == Len(p) <= Len(t) /\ SubSeq(t, 1, Len(p)) = p

\* C5: the call appends exactly one entry, a prefix of the trimmed description
\* of at most 100 characters; 150 ASCII characters give exactly 100.
DescriptionTruncation ==
    pc = "returned" =>
        /\ Len(words) = Len(arg.words) + 1
        /\ SubSeq(words, 1, Len(arg.words)) = arg.words
        /\ IsPrefix(words[Len(words)], trim(arg.value))
        /\ Len(words[Len(words)]) <= 100
        /\ arg.value = Pad(150) => Len(words[Len(words)]) = 100

IsSeparator(c) == c \in {"-", "_"}

RECURSIVE Pieces(_, _)
\* the pieces of an identifier between hyphens and underscores
Pieces(s, piece) ==
    IF s = <<>> THEN <<piece>>
    ELSE IF IsSeparator(Head(s)) THEN <<piece>> \o Pieces(Tail(s), <<>>)
    ELSE Pieces(Tail(s), Append(piece, Head(s)))

FoldedPieces(s) == LET ps == Pieces(s, <<>>) IN [i \in DOMAIN ps |-> to_lowercase(ps[i])]

\* C6 as stated: the surviving pieces are those of at least 3 characters.
TokenExtractionByCharacters ==
    pc = "returned" =>
        words = arg.words \o SelectSeq(FoldedPieces(arg.value), LAMBDA t : Len(t) >= 3)

\* C6, amended: the call appends, in left-to-right order, exactly the
\* case-folded pieces between hyphens and underscores whose UTF-8 encoding is
\* at least 3 bytes long, and nothing else.
TokenExtraction ==
    pc = "returned" =>
        words = arg.words \o SelectSeq(FoldedPieces(arg.value), LAMBDA t : byte_len(t) >= 3)

\* C6 witness: serde_json has yielded ["serde", "json"] after the earlier words
TokenExtractionWitness ==
    /\ pc = "returned"
    /\ arg.value = <<"s", "e", "r", "d", "e", "_", "j", "s", "o", "n">>
    /\ arg.words # <<>>
    /\ words = arg.words \o <<<<"s", "e", "r", "d", "e">>, <<"j", "s", "o", "n">>>>

\* C7: a retained package with no record in the version table keeps 0.0.0,
\* in the population and in its entry of the written index.
NoVersionFallback ==
    /\ pc \in Resolved =>
          \A i \in DOMAIN crates :
              RecordsOf(crates[i].id) = {} => crates[i].version = <<0, 0, 0>>
    /\ pc = "done" =>
          \A i \in DOMAIN crates :
              RecordsOf(crates[i].id) = {} =>
                  \A j \in DOMAIN Entries(file[1]) :
                      Entries(file[1])[j][1] = EntryKey(minifier, crates[i])
                          => Entries(file[1])[j][3] = <<0, 0, 0>>

\* C7 witness: written, with a retained package that has no record while the
\* version table holds records of another package
NoVersionFallbackWitness ==
    /\ pc = "done"
    /\ versions_csv.rows # <<>>
    /\ \E i \in DOMAIN crates : RecordsOf(crates[i].id) = {}
    /\ DistinctNames

\* the statements that open a section of the output
Sections(text) ==
    SelectSeq(text, LAMBDA t : t \in {<<"var N=null;">>, <<"var mapping=">>,
                                      <<"var crateIndex={">>})

\* C8 as stated: null alias, then dictionary, then package index.
OutputLayoutAliasFirst ==
    pc = "done" =>
        Sections(file[1]) = <<<<"var N=null;">>, <<"var mapping=">>, <<"var crateIndex={">>>>

\* C8, amended: the written text consists of exactly three sections, in this
\* order: the dictionary declaration, the null alias, the package index.
OutputLayout ==
    pc = "done" =>
        /\ Sections(file[1]) = <<<<"var mapping=">>, <<"var N=null;">>, <<"var crateIndex={">>>>
        /\ file[1][1] = <<"var mapping=">>
        /\ file[1][Len(file[1])] = <<"};">>

\* C8 witness: a written index with entries
OutputLayoutWitness == pc = "done" /\ Len(Entries(file[1])) = MAX_CRATE_SIZE + 1

\* C9: a failure while loading either table, or too small a population, ends
\* the run at that stage: no later stage has produced anything and the output
\* file is untouched. The file is touched only after every earlier stage has
\* succeeded, and holds the whole text when the run completes.
FailFast ==
    /\ pc = "failed" <=> failure.kind # "none"
    /\ failure.stage \in {"read_crates", "rank_crates", "read_versions"} => file = prev_file
    /\ crates_csv.status # "ok" =>
          /\ pc \in {"read_crates", "failed"}
          /\ crates = <<>>
    /\ (crates_csv.status # "ok" \/ Len(crates_csv.rows) < MAX_CRATE_SIZE + 1) =>
          /\ pc \in {"read_crates", "rank_crates", "failed"}
          /\ versions = <<>> /\ sort_memo = <<>>
    /\ (crates_csv.status # "ok" \/ Len(crates_csv.rows) < MAX_CRATE_SIZE + 1
        \/ versions_csv.status # "ok") =>
          /\ pc \in {"read_crates", "rank_crates", "read_versions", "failed"}
          /\ failure.stage # "write"
          /\ unique_crate_ids = {} /\ words = <<>> /\ minifier = <<>>
          /\ contents = <<>> /\ file = prev_file
    /\ file # prev_file =>
          \/ pc = "done" /\ file = <<contents>>
          \/ pc = "failed" /\ failure.stage = "write"

\* C9 witness: versions.csv has a malformed row after the package table was
\* loaded, ranked and truncated
FailFastWitness ==
    /\ pc = "failed"
    /\ failure = [kind |-> "MalformedRecord", stage |-> "read_versions"]
    /\ crates_csv.status = "ok"
    /\ Len(crates) = MAX_CRATE_SIZE + 1
    /\ file = <<>>

RECURSIVE CorpusIdFirst(_)
\* per package: identifier tokens, then the description entry
CorpusIdFirst(cs) ==
    IF cs = <<>> THEN <<>>
    ELSE collect_crate_id(<<>>, Head(cs).name)
         \o (IF Head(cs).description = <<>> THEN <<>>
             ELSE collect_crate_description(<<>>, Head(cs).description[1]))
         \o CorpusIdFirst(Tail(cs))

RECURSIVE CorpusDescriptionFirst(_)
\* per package: the description entry, then the identifier tokens
CorpusDescriptionFirst(cs) ==
    IF cs = <<>> THEN <<>>
    ELSE (IF Head(cs).description = <<>> THEN <<>>
          ELSE collect_crate_description(<<>>, Head(cs).description[1]))
         \o collect_crate_id(<<>>, Head(cs).name)
         \o CorpusDescriptionFirst(Tail(cs))

\* C10 as stated: each package contributes its tokens, then its description.
CorpusOrderIdFirst ==
    /\ pc \in Resolved => words = CorpusIdFirst(crates)
    /\ pc \in {"generate", "write", "done"} => minifier = Minifier_new(CorpusIdFirst(crates))

\* C10, amended: the corpus handed to Minifier::new is the concatenation, over
\* the retained packages in ranked order, of each package's description entry
\* (if it has a description) followed by its surviving identifier tokens.
CorpusOrder ==
    /\ pc \in Resolved => words = CorpusDescriptionFirst(crates)
    /\ pc \in {"generate", "write", "done"} =>
          minifier = Minifier_new(CorpusDescriptionFirst(crates))

\* C10 witness: the first retained package has a description and a token, the
\* second contributes nothing
CorpusOrderWitness ==
    /\ pc = "generate"
    /\ crates[1].description # <<>>
    /\ collect_crate_id(<<>>, crates[1].name) # <<>>
    /\ crates[2].description = <<>>
    /\ collect_crate_id(<<>>, crates[2].name) = <<>>
    /\ Len(words) = 2

====
